---- MODULE Spec2Model ----
(***************************************************************************)
(* Hybrid retrieval engine of the resume screening agent                   *)
(* (src/backend/vector_db.py): VectorDatabase, HybridSearchEngine and      *)
(* ResumeRetriever.                                                        *)
(*                                                                         *)
(* Texts are sequences of words (the maximal \w+ runs of the composed      *)
(* string).  Embeddings are two-dimensional integer vectors; a normalised  *)
(* vector has length UnitLen, so an inner product of two normalised        *)
(* vectors is a cosine in units of 1/(UnitLen*UnitLen).  Fused scores are  *)
(* exact rationals [n, d] with d > 0; weights are tenths.                  *)
(***************************************************************************)
EXTENDS Integers, Sequences, FiniteSets, TLC

VARIABLES documents, keyword_index, vdb_index, vdb_documents, vdb_doc_ids,
          job_descriptions, last, requests

vars == <<documents, keyword_index, vdb_index, vdb_documents, vdb_doc_ids,
          job_descriptions, last, requests>>

(***************************************************************************)
(* Bounds                                                                  *)
(***************************************************************************)
\* cap on the number of documents and on the number of FAISS vectors
MaxEntries == 2
\* largest top_k / k passed to a search
MaxTopK == 3
\* vectors in the index of an agent's retriever, workers of a pool
MaxRankEntries == 4
MaxWorkers == 2
\* /screen requests served at the same time
MaxRequests == 2
\* calls indexing records with ids of the caller's choice
MaxGivenEntries == 3

(***************************************************************************)
(* Inputs                                                                  *)
(***************************************************************************)
NoId == ""

ResumeRecords ==
  { [id |-> "r1", name |-> "Ann", skills |-> <<"Python">>],
    [id |-> "r1", name |-> "Ann", skills |-> <<"Java", "Java">>],
    [id |-> "r2", name |-> "Bob", skills |-> <<"the", "Go", "java">>],
    [id |-> NoId, name |-> "", skills |-> <<>>] }

JobRecords ==
  { [title |-> <<"Python">>, required_skills |-> <<>>],
    [title |-> <<>>, required_skills |-> <<"Java">>],
    [title |-> <<>>, required_skills |-> <<>>] }

ResumeBatches ==
  { <<r>> : r \in ResumeRecords } \cup
  { <<a, b>> : a \in {r \in ResumeRecords : r.id = "r1"},
               b \in {r \in ResumeRecords : r.id # NoId} }


\* (keyword_weight, vector_weight) in tenths; the first pair is the default
WeightPairs == { <<3, 7>>, <<10, 0>>, <<0, 10>> }

\* query texts for keyword_search: two terms in both orders, a repeated term,
\* a content label, and a text without keywords
KeywordQueries ==
  { <<"Java", "Python">>, <<"Python", "Java">>, <<"Java", "java">>,
    <<"Skills", "Java">>, <<"the", "Go">> }

(***************************************************************************)
(* Generic helpers                                                         *)
(***************************************************************************)
Range(s) == { s[i] : i \in DOMAIN s }

Min(a, b) == IF a <= b THEN a ELSE b

\* all enumerations of a finite set: the possible iteration orders of a
\* Python set, or the possible orders of equal-score entries
SeqsOf(S) == { s \in [1..Cardinality(S) -> S] : Range(s) = S }

RECURSIVE InsertDesc(_, _)
InsertDesc(sorted, e) ==
  IF sorted = <<>> THEN <<e>>
  ELSE IF Head(sorted).key >= e.key
       THEN <<Head(sorted)>> \o InsertDesc(Tail(sorted), e)
       ELSE <<e>> \o sorted

RECURSIVE SortFrom(_, _)
SortFrom(acc, s) ==
  IF s = <<>> THEN acc ELSE SortFrom(InsertDesc(acc, Head(s)), Tail(s))

\* sorted(items, key=..., reverse=True): stable, descending by key
SortedDesc(s) == SortFrom(<<>>, s)

Prefix(s, k) == SubSeq(s, 1, Min(k, Len(s)))

(***************************************************************************)
(* Tokenizer                                                               *)
(***************************************************************************)
Lower(w) ==
  CASE w = "Python" -> "python"
    [] w = "Java" -> "java"
    [] w = "Go" -> "go"
    [] w = "Ann" -> "ann"
    [] w = "Bob" -> "bob"
    [] w = "Name" -> "name"
    [] w = "Skills" -> "skills"
    [] w = "Job" -> "job"
    [] w = "Title" -> "title"
    [] w = "Required" -> "required"
    [] OTHER -> w

stop_words ==
  { "the", "a", "an", "and", "or", "but", "in", "on", "at", "to", "for",
    "of", "with", "by", "is", "are", "was", "were", "be", "been", "have",
    "has", "had", "do", "does", "did", "will", "would", "could", "should",
    "may", "might", "must", "can", "this", "that", "these", "those" }

IsKeyword(w) == Len(w) > 2 /\ w \notin stop_words

extract_keywords(text) ==
  SelectSeq([i \in DOMAIN text |-> Lower(text[i])], IsKeyword)

\* Counter(keywords)[w]
CounterOf(keywords, w) == Cardinality({ i \in DOMAIN keywords : keywords[i] = w })

(***************************************************************************)
(* Canonical content                                                       *)
(***************************************************************************)
create_resume_content(resume) ==
  (IF resume.name # "" THEN <<"Name", resume.name>> ELSE <<>>) \o
  (IF resume.skills # <<>> THEN <<"Skills">> \o resume.skills ELSE <<>>)

create_job_description_content(job_desc) ==
  (IF job_desc.title # <<>> THEN <<"Job", "Title">> \o job_desc.title ELSE <<>>) \o
  (IF job_desc.required_skills # <<>>
     THEN <<"Required", "Skills">> \o job_desc.required_skills ELSE <<>>)

ResumeDocId(resume, docs) ==
  IF resume.id # NoId THEN resume.id ELSE "resume_" \o ToString(Len(docs))

JobId(jobs) == "job_" \o ToString(Len(jobs))

MakeDocument(doc_id, content, type, payload) ==
  [id |-> doc_id, content |-> content, type |-> type, payload |-> payload]

(***************************************************************************)
(* Embedding provider and FAISS                                            *)
(***************************************************************************)
UnitLen == 5

\* model.encode(text): the raw (not normalised) vector of the sentence
\* transformer, a fixed function of the text
encode(text) ==
  LET keywords == Range(extract_keywords(text))
  IN  IF "python" \in keywords /\ "java" \notin keywords THEN <<3, 4>>
      ELSE IF "java" \in keywords /\ "python" \notin keywords
             THEN (IF "bob" \in keywords THEN <<5, 0>> ELSE <<8, -6>>)
      ELSE <<-6, -8>>

Norm(v) == CHOOSE n \in 0..100 : n * n = v[1] * v[1] + v[2] * v[2]

\* faiss.normalize_L2: a zero vector is left as it is
normalize_L2(v) ==
  IF Norm(v) = 0 THEN v
  ELSE <<(UnitLen * v[1]) \div Norm(v), (UnitLen * v[2]) \div Norm(v)>>

InnerProduct(u, v) == u[1] * v[1] + u[2] * v[2]

\* the score FAISS reports in a result slot it could not fill (-FLT_MAX)
NegFltMax == -1000000

\* the orders in which IndexFlatIP may list its n vectors: by inner product,
\* descending, equal products in any order
FaissOrders(index, q) ==
  { o \in SeqsOf(DOMAIN index) :
      \A i, j \in DOMAIN o :
        i < j => InnerProduct(index[o[i]], q) >= InnerProduct(index[o[j]], q) }

\* index.search(q, k): k slots of (score, label); labels are 0-based and a
\* slot beyond the stored vectors has label -1
FaissSearch(index, q, k, o) ==
  [s \in 1..k |->
     IF s <= Len(index)
       THEN [score |-> InnerProduct(index[o[s]], q), idx |-> o[s] - 1]
       ELSE [score |-> NegFltMax, idx |-> -1]]

\* Python list indexing: a negative index counts from the end
PyInRange(list, idx) == idx < Len(list) /\ idx >= -Len(list)
PyIndex(list, idx) == IF idx >= 0 THEN list[idx + 1] ELSE list[Len(list) + idx + 1]

(***************************************************************************)
(* VectorDatabase                                                          *)
(***************************************************************************)
\* the list built by the loop of VectorDatabase.search over the FAISS slots
VdbResults(vdocs, hits) ==
  LET kept == SelectSeq(hits, LAMBDA h : h.idx < Len(vdocs))
  IN  [i \in DOMAIN kept |-> [doc |-> PyIndex(vdocs, kept[i].idx), score |-> kept[i].score]]

\* self.documents[idx] raises IndexError
VdbSearchRaises(vdocs, hits) ==
  \E s \in DOMAIN hits : hits[s].idx < Len(vdocs) /\ ~PyInRange(vdocs, hits[s].idx)

(***************************************************************************)
(* HybridSearchEngine                                                      *)
(***************************************************************************)
HasId(docs, id) == \E i \in DOMAIN docs : docs[i].id = id

DocById(docs, id) == docs[CHOOSE i \in DOMAIN docs : docs[i].id = id]

\* a store that appends where the dict assigns
PutDocument_Append(docs, document) == Append(docs, document)

\* self.documents[doc_id] = document: a dict keeps the position of a key
\* that is assigned again
PutDocument(docs, document) ==
  IF HasId(docs, document.id)
    THEN [i \in DOMAIN docs |-> IF docs[i].id = document.id THEN document ELSE docs[i]]
    ELSE Append(docs, document)

\* self.keyword_index[keyword][doc_id] = count
SetPosting(postings, doc_id, count) ==
  IF \E i \in DOMAIN postings : postings[i].doc = doc_id
    THEN [i \in DOMAIN postings |->
            IF postings[i].doc = doc_id THEN [doc |-> doc_id, count |-> count]
            ELSE postings[i]]
    ELSE Append(postings, [doc |-> doc_id, count |-> count])

build_keyword_index(index, doc_id, content) ==
  LET keywords == extract_keywords(content)
      terms == Range(keywords)
  IN  [t \in (DOMAIN index) \cup terms |->
         IF t \in terms
           THEN SetPosting(IF t \in DOMAIN index THEN index[t] ELSE <<>>,
                           doc_id, CounterOf(keywords, t))
           ELSE index[t]]

\* the postings visited by the two nested loops of keyword_search, in order
RECURSIVE VisitedPostings(_, _)
VisitedPostings(index, query_keywords) ==
  IF query_keywords = <<>> THEN <<>>
  ELSE (IF Head(query_keywords) \in DOMAIN index
          THEN index[Head(query_keywords)] ELSE <<>>)
       \o VisitedPostings(index, Tail(query_keywords))

\* keys of doc_scores in insertion order
RECURSIVE FirstSeen(_, _)
FirstSeen(acc, visited) ==
  IF visited = <<>> THEN acc
  ELSE FirstSeen(IF Head(visited).doc \in Range(acc) THEN acc
                 ELSE Append(acc, Head(visited).doc), Tail(visited))

\* keyword_search counting each posting once, whatever its count
SumCounts_OnePerPosting(visited, doc_id) ==
  Cardinality({ i \in DOMAIN visited : visited[i].doc = doc_id })

RECURSIVE SumCounts(_, _)
SumCounts(visited, doc_id) ==
  IF visited = <<>> THEN 0
  ELSE (IF Head(visited).doc = doc_id THEN Head(visited).count ELSE 0)
       + SumCounts(Tail(visited), doc_id)

keyword_search(index, query, k) ==
  LET query_keywords == extract_keywords(query)
      visited == VisitedPostings(index, query_keywords)
      order == FirstSeen(<<>>, visited)
      doc_scores == [i \in DOMAIN order |->
                       [id |-> order[i], key |-> SumCounts(visited, order[i])]]
  IN  IF query_keywords = <<>> THEN <<>> ELSE Prefix(SortedDesc(doc_scores), k)

\* dict(pairs)[id]: the last pair with that id wins
RECURSIVE LastScore(_, _, _)
LastScore(pairs, id, default) ==
  IF pairs = <<>> THEN default
  ELSE IF pairs[Len(pairs)].id = id THEN pairs[Len(pairs)].key
  ELSE LastScore(SubSeq(pairs, 1, Len(pairs) - 1), id, default)

SetMax(S) == CHOOSE m \in S : \A x \in S : x <= m

\* MaxScore without the test for 0
MaxScore_NoZeroTest(pairs) ==
  LET ids == { pairs[i].id : i \in DOMAIN pairs }
  IN  IF ids = {} THEN 1 ELSE SetMax({ LastScore(pairs, id, 0) : id \in ids })

\* max(scores.values()) if scores else 1, then 1 when it is 0
MaxScore(pairs) ==
  LET ids == { pairs[i].id : i \in DOMAIN pairs }
      m == IF ids = {} THEN 1 ELSE SetMax({ LastScore(pairs, id, 0) : id \in ids })
  IN  IF m = 0 THEN 1 ELSE m

Sign(x) == IF x < 0 THEN -1 ELSE 1

\* the fusion with the two weights exchanged
CombinedScore_WeightsSwapped(ks, vs, maxK, maxV, wk, wv) ==
  [n |-> Sign(maxK * maxV) * (wv * ks * maxV + wk * vs * maxK),
   d |-> Sign(maxK * maxV) * 10 * maxK * maxV]

\* keyword_weight*(ks/maxK) + vector_weight*(vs/maxV) as the fraction n/d, d > 0
CombinedScore(ks, vs, maxK, maxV, wk, wv) ==
  [n |-> Sign(maxK * maxV) * (wk * ks * maxV + wv * vs * maxK),
   d |-> Sign(maxK * maxV) * 10 * maxK * maxV]

\* hybrid_search after the two sub-searches: fusion, sort and truncation.
\* idOrder is the iteration order of the set all_doc_ids.
Fuse(docs, keyword_results, vector_results, k, wk, wv, idOrder) ==
  LET vector_pairs == [i \in DOMAIN vector_results |->
                         [id |-> vector_results[i].doc.id, key |-> vector_results[i].score]]
      maxK == MaxScore(keyword_results)
      maxV == MaxScore(vector_pairs)
      combined == [i \in DOMAIN idOrder |->
                     LET c == CombinedScore(LastScore(keyword_results, idOrder[i], 0),
                                            LastScore(vector_pairs, idOrder[i], 0),
                                            maxK, maxV, wk, wv)
                     IN  [id |-> idOrder[i], key |-> c.n, score |-> c]]
      top == SelectSeq(Prefix(SortedDesc(combined), k), LAMBDA e : HasId(docs, e.id))
  IN  [i \in DOMAIN top |-> [doc |-> DocById(docs, top[i].id), score |-> top[i].score]]

AllDocIds(keyword_results, vector_results) ==
  { keyword_results[i].id : i \in DOMAIN keyword_results } \cup
  { vector_results[i].doc.id : i \in DOMAIN vector_results }

(***************************************************************************)
(* ResumeRetriever                                                         *)
(***************************************************************************)
\* retrieve_candidates without the test of the document type
Candidates_NoTypeFilter(results) ==
  [i \in DOMAIN results |->
     [resume |-> results[i].doc.payload, hybrid_score |-> results[i].score]]

\* the loop of retrieve_candidates over the hybrid results
Candidates(results) ==
  LET resumes == SelectSeq(results, LAMBDA r : r.doc.type = "resume")
  IN  [i \in DOMAIN resumes |->
         [resume |-> resumes[i].doc.payload, hybrid_score |-> resumes[i].score]]

\* the outcomes hybrid_search(query, k, wk/10, wv/10) can have on the engine e
\* when the query embeds to the unit vector q; o is the order of the FAISS
\* result
HybridOutcomesOn(e, query, q, k, wk, wv) ==
  LET keyword_results == keyword_search(e.keyword_index, query, k * 2)
  IN  UNION {
        IF VdbSearchRaises(e.vdb_documents, FaissSearch(e.vdb_index, q, k * 2, o))
          THEN { [status |-> "raised", results |-> <<>>] }
          ELSE LET vector_results ==
                     VdbResults(e.vdb_documents, FaissSearch(e.vdb_index, q, k * 2, o))
               IN  { [status |-> "ok",
                      results |-> Fuse(e.documents, keyword_results, vector_results,
                                       k, wk, wv, idOrder)] :
                     idOrder \in SeqsOf(AllDocIds(keyword_results, vector_results)) }
        : o \in FaissOrders(e.vdb_index, q) }

(***************************************************************************)
(* State machine                                                           *)
(***************************************************************************)
NoJob == [title |-> <<>>, required_skills |-> <<>>]

\* what the last call was and what it returned
\* (added: the documents the call passed to add_document, in order; events:
\* what the call did to the corpus and to the embedding provider, in order)
Call(op, status, k, job, w, results, ret, log) ==
  [op |-> op, status |-> status, k |-> k, job |-> job, wk |-> w[1], wv |-> w[2],
   results |-> results, ret |-> ret, added |-> log.added, events |-> log.events,
   query |-> create_job_description_content(job)]

NoLog == [added |-> <<>>, events |-> <<>>]

Engine ==
  [documents |-> documents, keyword_index |-> keyword_index,
   vdb_index |-> vdb_index, vdb_documents |-> vdb_documents,
   vdb_doc_ids |-> vdb_doc_ids, added |-> <<>>, events |-> <<>>]

\* the outcomes of hybrid_search in the current state
HybridOutcomes(query, q, k, wk, wv) == HybridOutcomesOn(Engine, query, q, k, wk, wv)

\* VectorDatabase.add_documents([document])
add_documents(e, document) ==
  [e EXCEPT !.events = @ \o <<"encode", "vector">>,
            !.vdb_index = Append(@, normalize_L2(encode(document.content))),
            !.vdb_documents = Append(@, document),
            !.vdb_doc_ids = Append(@, document.id)]

\* HybridSearchEngine.add_document; encodeOk = FALSE when model.encode raises
add_document(e, document, encodeOk) ==
  LET stored == [e EXCEPT !.added = Append(@, document),
                          !.events = @ \o <<"store", "postings">>,
                          !.documents = PutDocument(@, document),
                          !.keyword_index = build_keyword_index(@, document.id, document.content)]
  IN  IF encodeOk THEN add_documents(stored, document)
      ELSE [stored EXCEPT !.events = Append(@, "encode")]

ResumeDocument(e, resume) ==
  MakeDocument(ResumeDocId(resume, e.documents), create_resume_content(resume),
               "resume", resume)

\* ResumeRetriever.index_resume
index_resume(e, resume, encodeOk) ==
  add_document(e, ResumeDocument(e, resume), encodeOk)

\* the loop of index_resumes from the i-th resume on; the encode call of the
\* failAt-th resume raises (failAt = 0: none does) and ends the loop
RECURSIVE index_resumes(_, _, _, _)
index_resumes(e, resumes, i, failAt) ==
  IF i > Len(resumes) THEN e
  ELSE IF i = failAt THEN index_resume(e, resumes[i], FALSE)
  ELSE index_resumes(index_resume(e, resumes[i], TRUE), resumes, i + 1, failAt)

Install(e) ==
  /\ documents' = e.documents
  /\ keyword_index' = e.keyword_index
  /\ vdb_index' = e.vdb_index
  /\ vdb_documents' = e.vdb_documents
  /\ vdb_doc_ids' = e.vdb_doc_ids

Room(n) == Len(documents) + n <= MaxEntries /\ Len(vdb_index) + n <= MaxEntries

\* the threads that serve /screen requests, and a thread without a request
Requests == 1..MaxRequests

IdleRequest ==
  [pc |-> "idle", resumes |-> <<>>, job |-> NoJob, top_n |-> 0, todo |-> <<>>,
   candidates |-> <<>>, ret |-> <<>>]

Init ==
  /\ documents = <<>>
  /\ keyword_index = <<>>
  /\ vdb_index = <<>>
  /\ vdb_documents = <<>>
  /\ vdb_doc_ids = <<>>
  /\ job_descriptions = <<>>
  /\ last = Call("init", "ok", 0, NoJob, <<3, 7>>, <<>>, <<>>, NoLog)
  /\ requests = [r \in Requests |-> IdleRequest]

IndexResumeCall(encodeOk) ==
  \E resume \in ResumeRecords :
    /\ Room(1)
    /\ Install(index_resume(Engine, resume, encodeOk))
    /\ last' = Call("index_resume", IF encodeOk THEN "ok" ELSE "raised", 0, NoJob,
                    <<3, 7>>, <<>>, <<>>, index_resume(Engine, resume, encodeOk))
    /\ UNCHANGED <<job_descriptions, requests>>

IndexResumesCall(mayFail) ==
  \E resumes \in ResumeBatches :
  \E failAt \in 0..(IF mayFail THEN Len(resumes) ELSE 0) :
    /\ Room(Len(resumes))
    /\ Install(index_resumes(Engine, resumes, 1, failAt))
    /\ last' = Call("index_resumes", IF failAt = 0 THEN "ok" ELSE "raised", 0, NoJob,
                    <<3, 7>>, <<>>, <<>>, index_resumes(Engine, resumes, 1, failAt))
    /\ UNCHANGED <<job_descriptions, requests>>

IndexJobDescriptionCall(encodeOk) ==
  \E job_desc \in JobRecords :
    LET content == create_job_description_content(job_desc)
        job_id == JobId(job_descriptions)
    IN  /\ Room(1)
        /\ job_descriptions' = Append(job_descriptions, [id |-> job_id, job |-> job_desc])
        /\ Install(add_document(Engine, MakeDocument(job_id, content, "job_description", job_desc),
                                encodeOk))
        /\ last' = Call("index_job_description", IF encodeOk THEN "ok" ELSE "raised", 0,
                        job_desc, <<3, 7>>, <<>>, <<>>,
                        add_document(Engine, MakeDocument(job_id, content, "job_description", job_desc),
                                     encodeOk))
        /\ UNCHANGED requests

\* retrieve_candidates writing the score into the stored payload instead of
\* into a copy
RetrieveCandidates_NoCopy ==
  \E job_desc \in JobRecords, top_k \in 1..MaxTopK :
    LET query == create_job_description_content(job_desc)
    IN  \E out \in HybridOutcomes(query, normalize_L2(encode(query)), top_k, 3, 7) :
          LET scored == { out.results[i].doc.id : i \in DOMAIN out.results }
          IN  /\ last' = Call("retrieve_candidates", out.status, top_k, job_desc, <<3, 7>>,
                              out.results, Candidates(out.results), NoLog)
              /\ documents' = [i \in DOMAIN documents |->
                                 IF documents[i].id \in scored /\ documents[i].type = "resume"
                                   THEN [documents[i] EXCEPT !.payload =
                                           [id |-> @.id, name |-> @.name, skills |-> @.skills,
                                            hybrid_score |-> 0]]
                                   ELSE documents[i]]
              /\ UNCHANGED <<keyword_index, vdb_index, vdb_documents,
                             vdb_doc_ids, job_descriptions, requests>>

RetrieveCandidates ==
  \E job_desc \in JobRecords, top_k \in 1..MaxTopK :
    LET query == create_job_description_content(job_desc)
    IN  \E out \in HybridOutcomes(query, normalize_L2(encode(query)), top_k, 3, 7) :
          /\ last' = Call("retrieve_candidates", out.status, top_k, job_desc, <<3, 7>>,
                          out.results, Candidates(out.results), NoLog)
          /\ UNCHANGED <<documents, keyword_index, vdb_index, vdb_documents,
                         vdb_doc_ids, job_descriptions, requests>>

HybridSearch ==
  \E job_desc \in JobRecords, k \in 1..MaxTopK, w \in WeightPairs :
    LET query == create_job_description_content(job_desc)
    IN  \E out \in HybridOutcomes(query, normalize_L2(encode(query)), k, w[1], w[2]) :
          /\ last' = Call("hybrid_search", out.status, k, job_desc, w,
                          out.results, <<>>, NoLog)
          /\ UNCHANGED <<documents, keyword_index, vdb_index, vdb_documents,
                         vdb_doc_ids, job_descriptions, requests>>

\* the calls, model.encode raising or not
IndexResume == \E encodeOk \in BOOLEAN : IndexResumeCall(encodeOk)
IndexResumes == IndexResumesCall(TRUE)
IndexJobDescription == \E encodeOk \in BOOLEAN : IndexJobDescriptionCall(encodeOk)

Next ==
  \/ IndexResume
  \/ IndexResumes
  \/ IndexJobDescription
  \/ RetrieveCandidates
  \/ HybridSearch

Spec == Init /\ [][Next]_vars

\* the calls when the embedding provider never fails
IndexResumeOk == IndexResumeCall(TRUE)
IndexResumesOk == IndexResumesCall(FALSE)
IndexJobDescriptionOk == IndexJobDescriptionCall(TRUE)

NextOk ==
  \/ IndexResumeOk
  \/ IndexResumesOk
  \/ IndexJobDescriptionOk
  \/ RetrieveCandidates
  \/ HybridSearch

SpecOk == Init /\ [][NextOk]_vars

\* HybridSearchEngine.keyword_search(query, k) on the indexed corpus
KeywordSearch ==
  \E query \in KeywordQueries, k \in 0..MaxTopK :
    /\ last' = [Call("keyword_search", "ok", k, NoJob, <<3, 7>>, <<>>,
                     keyword_search(keyword_index, query, k), NoLog)
                  EXCEPT !.query = query]
    /\ UNCHANGED <<documents, keyword_index, vdb_index, vdb_documents,
                   vdb_doc_ids, job_descriptions, requests>>

NextKeyword ==
  \/ IndexResumeOk
  \/ IndexResumesOk
  \/ IndexJobDescriptionOk
  \/ KeywordSearch

SpecKeyword == Init /\ [][NextKeyword]_vars

(***************************************************************************)
(* ResumeScreeningAgent.screen_resume                                      *)
(***************************************************************************)
\* range(3): the attempts of one screening
MaxAttempts == 3

\* the JSON objects the model's reply can parse to: one with the score fields,
\* one without
JsonResults ==
  { [overall_score |-> 80, recommendation |-> "RECOMMENDED"],
    [reasoning |-> "none"] }

\* what one call of client.chat.completions.create can lead to inside the
\* try block: a reply that parses, an error whose text holds
\* rate_limit_exceeded, any other error, a reply json.loads rejects
ApiOutcomes ==
  { [kind |-> "success", result |-> j] : j \in JsonResults } \cup
  { [kind |-> k, result |-> [reasoning |-> "none"]] :
      k \in {"rate_limit", "other_error", "bad_json"} }

OutcomeSeqs == [1..MaxAttempts -> ApiOutcomes]

\* result.get(key, default)
Get(result, key, default) == IF key \in DOMAIN result THEN result[key] ELSE default

\* similarity_score: float = 0.0
NoSimilarity == [n |-> 0, d |-> 1]

\* the ResumeScore built from the parsed reply
ParsedScore(resume, result) ==
  [resume_id |-> resume.id, candidate_name |-> resume.name,
   overall_score |-> Get(result, "overall_score", 0),
   recommendation |-> Get(result, "recommendation", "NOT_RECOMMENDED"),
   reasoning |-> "parsed", similarity_score |-> NoSimilarity]

\* the default low score
ErrorScore(resume, reasoning) ==
  [resume_id |-> resume.id, candidate_name |-> resume.name,
   overall_score |-> 0, recommendation |-> "NOT_RECOMMENDED",
   reasoning |-> reasoning, similarity_score |-> NoSimilarity]

\* (2 ** attempt) * 5
wait_time(attempt) == (2 ^ attempt) * 5

\* the retry loop retrying after every error
RECURSIVE screen_attempts_RetryAnyError(_, _, _, _)
screen_attempts_RetryAnyError(resume, outcomes, attempt, waits) ==
  IF attempt >= MaxAttempts
    THEN [status |-> "ok", ret |-> ErrorScore(resume, "Max retries exceeded"),
          calls |-> attempt, waits |-> waits, exit |-> "after_loop"]
  ELSE LET o == outcomes[attempt + 1]
       IN  IF o.kind = "success"
             THEN [status |-> "ok", ret |-> ParsedScore(resume, o.result),
                   calls |-> attempt + 1, waits |-> waits, exit |-> "parsed"]
           ELSE IF attempt < 2
             THEN screen_attempts_RetryAnyError(resume, outcomes, attempt + 1,
                                                Append(waits, wait_time(attempt)))
           ELSE [status |-> "ok", ret |-> ErrorScore(resume, "Error during screening"),
                 calls |-> attempt + 1, waits |-> waits, exit |-> "error"]

\* the retry loop retrying after a rate-limit error of the last attempt too
RECURSIVE screen_attempts_RetryLastAttempt(_, _, _, _)
screen_attempts_RetryLastAttempt(resume, outcomes, attempt, waits) ==
  IF attempt >= MaxAttempts
    THEN [status |-> "ok", ret |-> ErrorScore(resume, "Max retries exceeded"),
          calls |-> attempt, waits |-> waits, exit |-> "after_loop"]
  ELSE LET o == outcomes[attempt + 1]
       IN  IF o.kind = "success"
             THEN [status |-> "ok", ret |-> ParsedScore(resume, o.result),
                   calls |-> attempt + 1, waits |-> waits, exit |-> "parsed"]
           ELSE IF o.kind = "rate_limit"
             THEN screen_attempts_RetryLastAttempt(resume, outcomes, attempt + 1,
                                                   Append(waits, wait_time(attempt)))
           ELSE [status |-> "ok", ret |-> ErrorScore(resume, "Error during screening"),
                 calls |-> attempt + 1, waits |-> waits, exit |-> "error"]

\* the retry loop from the given attempt on; calls counts the API calls made,
\* waits lists the sleeps, exit names the return statement taken
RECURSIVE screen_attempts(_, _, _, _)
screen_attempts(resume, outcomes, attempt, waits) ==
  IF attempt >= MaxAttempts
    THEN [status |-> "ok", ret |-> ErrorScore(resume, "Max retries exceeded"),
          calls |-> attempt, waits |-> waits, exit |-> "after_loop"]
  ELSE LET o == outcomes[attempt + 1]
       IN  IF o.kind = "success"
             THEN [status |-> "ok", ret |-> ParsedScore(resume, o.result),
                   calls |-> attempt + 1, waits |-> waits, exit |-> "parsed"]
           ELSE IF o.kind = "rate_limit" /\ attempt < 2
             THEN screen_attempts(resume, outcomes, attempt + 1,
                                  Append(waits, wait_time(attempt)))
           ELSE [status |-> "ok", ret |-> ErrorScore(resume, "Error during screening"),
                 calls |-> attempt + 1, waits |-> waits, exit |-> "error"]

\* screen_resume whose except clause lets an error without the rate-limit
\* marker through
screen_resume_NoCatch(resume, outcomes) ==
  IF outcomes[1].kind \in {"other_error", "bad_json"}
    THEN [status |-> "raised", ret |-> ErrorScore(resume, "raised"),
          calls |-> 1, waits |-> <<>>, exit |-> "raised"]
    ELSE screen_attempts(resume, outcomes, 0, <<>>)

screen_resume(resume, outcomes) == screen_attempts(resume, outcomes, 0, <<>>)

ScreenResume ==
  \E resume \in ResumeRecords, outcomes \in OutcomeSeqs :
    LET r == screen_resume(resume, outcomes)
    IN  /\ last' = [op |-> "screen_resume", status |-> r.status, resume |-> resume,
                    outcomes |-> outcomes, ret |-> r.ret, calls |-> r.calls,
                    waits |-> r.waits, exit |-> r.exit]
        /\ UNCHANGED <<documents, keyword_index, vdb_index, vdb_documents,
                       vdb_doc_ids, job_descriptions, requests>>

NextScreen == ScreenResume

SpecScreen == Init /\ [][NextScreen]_vars

(***************************************************************************)
(* ResumeScreeningAgent.rank_resumes                                       *)
(***************************************************************************)
\* what a task of the pool, screen_resume(resume, job_desc), ends in: it
\* returns after the given API outcomes, or it raises
TaskRuns ==
  { [kind |-> "returned", outcomes |-> [i \in 1..MaxAttempts |-> o]] :
      o \in { a \in ApiOutcomes : "overall_score" \in DOMAIN a.result } } \cup
  { [kind |-> "raised", outcomes |-> [i \in 1..MaxAttempts |-> o]] :
      o \in { a \in ApiOutcomes : a.kind = "other_error" } }

\* the uploads and the jobs of the agent's callers
RankBatches ==
  { <<r>> : r \in { x \in ResumeRecords : x.skills # <<"Java", "Java">> } } \cup
  { <<a, b>> : a \in { x \in ResumeRecords : x.skills = <<"Python">> },
               b \in { x \in ResumeRecords : x.id = "r2" } }

RankJobs == { j \in JobRecords : create_job_description_content(j) # <<>> }

\* resume_id_map[id]: the last of the resumes with that id
ResumeIdMap(resumes, id) ==
  resumes[SetMax({ i \in DOMAIN resumes : resumes[i].id = id })]

\* the loop that turns candidates back into Resume objects
RECURSIVE FilteredResumes(_, _)
FilteredResumes(resumes, candidates) ==
  IF candidates = <<>> THEN <<>>
  ELSE LET candidate == Head(candidates).resume
           byName == { i \in DOMAIN resumes : resumes[i].name = candidate.name }
           found ==
             IF \E i \in DOMAIN resumes : resumes[i].id = candidate.id
               THEN <<ResumeIdMap(resumes, candidate.id)>>
             ELSE IF byName # {}
               THEN <<resumes[CHOOSE i \in byName : \A j \in byName : i <= j]>>
             ELSE <<>>
       IN  found \o FilteredResumes(resumes, Tail(candidates))

\* the body of the as_completed loop for one future
CollectedScore(resume, run) ==
  IF run.kind = "raised"
    THEN ErrorScore(resume, "Error during parallel screening")
  ELSE LET score == screen_resume(resume, run.outcomes).ret
       IN  IF "hybrid_score" \in DOMAIN resume
             THEN [score EXCEPT !.similarity_score = resume.hybrid_score]
             ELSE score

\* sorted(scores, key=overall_score, reverse=True) in ascending order
RankedScores_Ascending(to_process, runs, order) ==
  LET scores == [i \in DOMAIN order |->
                   LET sc == CollectedScore(to_process[order[i]], runs[order[i]])
                   IN  [key |-> -sc.overall_score, score |-> sc]]
      ranked == SortedDesc(scores)
  IN  [i \in DOMAIN ranked |-> ranked[i].score]

\* the scores appended in completion order, then sorted by overall_score
RankedScores(to_process, runs, order) ==
  LET scores == [i \in DOMAIN order |->
                   LET sc == CollectedScore(to_process[order[i]], runs[order[i]])
                   IN  [key |-> sc.overall_score, score |-> sc]]
      ranked == SortedDesc(scores)
  IN  [i \in DOMAIN ranked |-> ranked[i].score]

RankCall(resumes, job_desc, use_retrieval, retrieval_k, max_workers, log, results, to_process, runs, order) ==
  [op |-> "rank_resumes", status |-> "ok", resumes |-> resumes, job |-> job_desc,
   use_retrieval |-> use_retrieval, k |-> retrieval_k, max_workers |-> max_workers,
   added |-> log.added, results |-> results, candidates |-> Candidates(results),
   to_process |-> to_process, runs |-> runs, order |-> order,
   ret |-> RankedScores(to_process, runs, order)]

\* the worker pool: every task ends in some way, the futures complete in
\* some order
Pool(to_process) ==
  { [runs |-> runs, order |-> order] :
      runs \in [DOMAIN to_process -> TaskRuns], order \in SeqsOf(DOMAIN to_process) }

RankRoom(n) == Len(vdb_index) + n <= MaxRankEntries

\* rank_resumes(resumes, job_desc, max_workers, use_retrieval=True, retrieval_k)
RankWithRetrieval ==
  \E resumes \in RankBatches, job_desc \in RankJobs,
     retrieval_k \in 1..MaxTopK, max_workers \in 1..MaxWorkers :
    LET query == create_job_description_content(job_desc)
        job_id == JobId(job_descriptions)
        e == add_document(index_resumes(Engine, resumes, 1, 0),
                          MakeDocument(job_id, query, "job_description", job_desc), TRUE)
    IN  /\ RankRoom(Len(resumes) + 1)
        /\ job_descriptions' = Append(job_descriptions, [id |-> job_id, job |-> job_desc])
        /\ Install(e)
        /\ \E out \in HybridOutcomesOn(e, query, normalize_L2(encode(query)), retrieval_k, 3, 7) :
             LET to_process == FilteredResumes(resumes, Candidates(out.results))
             IN  /\ out.status = "ok"
                 /\ \E p \in Pool(to_process) :
                      last' = RankCall(resumes, job_desc, TRUE, retrieval_k, max_workers,
                                       e, out.results, to_process, p.runs, p.order)
        /\ UNCHANGED requests

\* rank_resumes(resumes, job_desc, max_workers, use_retrieval=False)
RankWithoutRetrieval ==
  \E resumes \in RankBatches, job_desc \in RankJobs, max_workers \in 1..MaxWorkers :
    \E p \in Pool(resumes) :
      /\ last' = RankCall(resumes, job_desc, FALSE, 0, max_workers,
                          NoLog, <<>>, resumes, p.runs, p.order)
      /\ UNCHANGED <<documents, keyword_index, vdb_index, vdb_documents,
                     vdb_doc_ids, job_descriptions, requests>>

NextRank ==
  \/ RankWithRetrieval
  \/ RankWithoutRetrieval

SpecRank == Init /\ [][NextRank]_vars

(***************************************************************************)
(* The /screen handler, one thread per request on the module's agent       *)
(***************************************************************************)
Max(a, b) == IF a >= b THEN a ELSE b

\* min(len(resumes), max(50, top_n * 2))
pre_filter_k(resumes, top_n) == Min(Len(resumes), Max(50, top_n * 2))

\* the documents the requests under way will have put into the retriever
Planned ==
  LET cost(r) == IF requests[r].pc = "idle" THEN 0 ELSE Len(requests[r].resumes) + 1
      RECURSIVE sum(_)
      sum(n) == IF n = 0 THEN 0 ELSE cost(n) + sum(n - 1)
  IN  sum(MaxRequests)

\* the resumes of an upload: their ids are made from the file names
Uploads == { b \in RankBatches : \A i \in DOMAIN b : b[i].id # NoId }

Step(r, name) == [op |-> "screen_resumes", request |-> r, step |-> name]

\* the handler up to the call of rank_resumes, which starts index_resumes
StartScreen(r) ==
  \E resumes \in Uploads, job_desc \in RankJobs :
  \E top_n \in 1..Len(resumes) :
    /\ requests[r].pc = "idle"
    /\ Planned + Len(resumes) + 1 <= MaxRankEntries
    /\ requests' = [requests EXCEPT ![r] =
                      [IdleRequest EXCEPT !.pc = "index_resumes", !.resumes = resumes,
                                          !.job = job_desc, !.top_n = top_n,
                                          !.todo = resumes]]
    /\ last' = Step(r, "start")
    /\ UNCHANGED <<documents, keyword_index, vdb_index, vdb_documents,
                   vdb_doc_ids, job_descriptions>>

\* one turn of the loop of index_resumes
IndexResumeStep(r) ==
  /\ requests[r].pc = "index_resumes"
  /\ Install(index_resume(Engine, Head(requests[r].todo), TRUE))
  /\ requests' = [requests EXCEPT ![r].todo = Tail(@),
                                  ![r].pc = IF Tail(requests[r].todo) = <<>>
                                              THEN "index_job_description" ELSE @]
  /\ last' = Step(r, "index_resume")
  /\ UNCHANGED job_descriptions

\* index_job_description
IndexJobStep(r) ==
  LET content == create_job_description_content(requests[r].job)
      job_id == JobId(job_descriptions)
  IN  /\ requests[r].pc = "index_job_description"
      /\ job_descriptions' = Append(job_descriptions, [id |-> job_id, job |-> requests[r].job])
      /\ Install(add_document(Engine, MakeDocument(job_id, content, "job_description",
                                                    requests[r].job), TRUE))
      /\ requests' = [requests EXCEPT ![r].pc = "retrieve_candidates"]
      /\ last' = Step(r, "index_job_description")

\* retrieve_candidates(job, pre_filter_k)
RetrieveStep(r) ==
  LET query == create_job_description_content(requests[r].job)
      k == pre_filter_k(requests[r].resumes, requests[r].top_n)
  IN  /\ requests[r].pc = "retrieve_candidates"
      /\ \E out \in HybridOutcomes(query, normalize_L2(encode(query)), k, 3, 7) :
           requests' = [requests EXCEPT
                          ![r].pc = IF out.status = "ok" THEN "screening" ELSE "failed",
                          ![r].candidates = Candidates(out.results)]
      /\ last' = Step(r, "retrieve_candidates")
      /\ UNCHANGED <<documents, keyword_index, vdb_index, vdb_documents,
                     vdb_doc_ids, job_descriptions>>

\* the rest of rank_resumes and ranked_results[:top_n]
ScreenStep(r) ==
  LET to_process == FilteredResumes(requests[r].resumes, requests[r].candidates)
  IN  /\ requests[r].pc = "screening"
      /\ \E p \in Pool(to_process) :
           requests' = [requests EXCEPT
                          ![r].pc = "done",
                          ![r].ret = Prefix(RankedScores(to_process, p.runs, p.order),
                                            requests[r].top_n)]
      /\ last' = Step(r, "screening")
      /\ UNCHANGED <<documents, keyword_index, vdb_index, vdb_documents,
                     vdb_doc_ids, job_descriptions>>

NextScreenRequests ==
  \/ \E r \in Requests : StartScreen(r)
  \/ \E r \in Requests : IndexResumeStep(r)
  \/ \E r \in Requests : IndexJobStep(r)
  \/ \E r \in Requests : RetrieveStep(r)
  \/ \E r \in Requests : ScreenStep(r)

SpecScreenRequests == Init /\ [][NextScreenRequests]_vars

(***************************************************************************)
(* VectorDatabase on its own                                               *)
(***************************************************************************)
\* documents handed to VectorDatabase.add_documents, and the lists of them
VectorDocuments ==
  { MakeDocument(r.id, create_resume_content(r), "resume", r) :
      r \in { x \in ResumeRecords : x.id # NoId } } \cup
  { MakeDocument("job_0", create_job_description_content(j), "job_description", j) :
      j \in JobRecords }

VectorBatches ==
  { <<d>> : d \in VectorDocuments } \cup
  { <<a, b>> : a \in { d \in VectorDocuments : d.type = "resume" },
               b \in { d \in VectorDocuments : d.type = "job_description" } }

\* VectorDatabase.add_documents(documents): the vectors, then the metadata
RECURSIVE add_documents_list(_, _)
add_documents_list(e, docs) ==
  IF docs = <<>> THEN e
  ELSE add_documents_list(add_documents(e, Head(docs)), Tail(docs))

\* VectorDatabase.clear that keeps the FAISS index
clear_KeepsIndex(e) == [e EXCEPT !.vdb_documents = <<>>, !.vdb_doc_ids = <<>>]

\* VectorDatabase.clear
clear(e) == [e EXCEPT !.vdb_index = <<>>, !.vdb_documents = <<>>, !.vdb_doc_ids = <<>>]

\* VectorDatabase.search(query, k) when FAISS lists the vectors in the order o
search(e, query, k, o) ==
  LET hits == FaissSearch(e.vdb_index, normalize_L2(encode(query)), k, o)
  IN  IF VdbSearchRaises(e.vdb_documents, hits)
        THEN [status |-> "raised", hits |-> hits, results |-> <<>>]
        ELSE [status |-> "ok", hits |-> hits, results |-> VdbResults(e.vdb_documents, hits)]

VectorCall(op, status, query, k, hits, ret) ==
  [op |-> op, status |-> status, query |-> query, k |-> k, hits |-> hits, ret |-> ret]

VdbAddDocuments ==
  \E docs \in VectorBatches :
    /\ Len(vdb_index) + Len(docs) <= MaxEntries
    /\ Install(add_documents_list(Engine, docs))
    /\ last' = VectorCall("add_documents", "ok", <<>>, 0, <<>>, docs)
    /\ UNCHANGED <<job_descriptions, requests>>

VdbClear ==
  /\ Install(clear(Engine))
  /\ last' = VectorCall("clear", "ok", <<>>, 0, <<>>, <<>>)
  /\ UNCHANGED <<job_descriptions, requests>>

VdbSearch ==
  \E query \in KeywordQueries, k \in 1..MaxTopK :
  \E o \in FaissOrders(vdb_index, normalize_L2(encode(query))) :
    LET r == search(Engine, query, k, o)
    IN  /\ last' = VectorCall("search", r.status, query, k, r.hits, r.results)
        /\ UNCHANGED <<documents, keyword_index, vdb_index, vdb_documents,
                       vdb_doc_ids, job_descriptions, requests>>

NextVector ==
  \/ VdbAddDocuments
  \/ VdbClear
  \/ VdbSearch

SpecVector == Init /\ [][NextVector]_vars

(***************************************************************************)
(* Score fusion of hybrid_search on given result sets                      *)
(***************************************************************************)
\* a document store of two resumes
FusionDocs ==
  LET doc(r) == MakeDocument(r.id, create_resume_content(r), "resume", r)
  IN  <<doc([id |-> "r1", name |-> "Ann", skills |-> <<"Python">>]),
        doc([id |-> "r2", name |-> "Bob", skills |-> <<"the", "Go", "java">>])>>

\* results keyword_search can return: distinct ids, counts above 0
KeywordResultSets ==
  LET pairs == { [id |-> d.id, key |-> c] : d \in Range(FusionDocs), c \in {1, 2} }
  IN  {<<>>} \cup { <<p>> : p \in pairs } \cup
      { s \in { <<p, q>> : p \in pairs, q \in pairs } :
          s[2].id # s[1].id /\ s[2].key <= s[1].key }

\* results VectorDatabase.search can return: scores between -1 and 1 (in
\* units of 1/25), a document possibly twice
VectorResultSets ==
  LET pairs == { [doc |-> d, score |-> s] : d \in Range(FusionDocs), s \in {-25, 0, 25} }
  IN  {<<>>} \cup { <<p>> : p \in pairs } \cup
      { s \in { <<p, q>> : p \in pairs, q \in pairs } : s[2].score <= s[1].score }

FusionInput(keyword_results, vector_results, w, idOrder) ==
  [op |-> "fusion_input", keyword_results |-> keyword_results,
   vector_results |-> vector_results, wk |-> w[1], wv |-> w[2], idOrder |-> idOrder]

InitFusion ==
  /\ documents = FusionDocs
  /\ keyword_index = <<>>
  /\ vdb_index = <<>>
  /\ vdb_documents = <<>>
  /\ vdb_doc_ids = <<>>
  /\ job_descriptions = <<>>
  /\ requests = [r \in Requests |-> IdleRequest]
  /\ \E keyword_results \in KeywordResultSets, vector_results \in VectorResultSets,
        w \in WeightPairs :
       \E idOrder \in SeqsOf(AllDocIds(keyword_results, vector_results)) :
         last = FusionInput(keyword_results, vector_results, w, idOrder)

\* lines 217-251 of hybrid_search on the two result sets
FuseScores ==
  /\ last.op = "fusion_input"
  /\ last' = [op |-> "fusion", input |-> last,
              maxK |-> MaxScore(last.keyword_results),
              maxV |-> MaxScore([i \in DOMAIN last.vector_results |->
                                   [id |-> last.vector_results[i].doc.id,
                                    key |-> last.vector_results[i].score]]),
              results |-> Fuse(documents, last.keyword_results, last.vector_results,
                               Len(documents), last.wk, last.wv, last.idOrder)]
  /\ UNCHANGED <<documents, keyword_index, vdb_index, vdb_documents,
                 vdb_doc_ids, job_descriptions, requests>>

NextFusion == FuseScores

SpecFusion == InitFusion /\ [][NextFusion]_vars

(***************************************************************************)
(* ResumeRetriever indexing records whose ids the caller chose             *)
(***************************************************************************)
\* resume dictionaries: two with an id of the caller's choice, one without
GivenResumes ==
  { [id |-> "resume_1", name |-> "Ann", skills |-> <<"Python">>],
    [id |-> "job_0", name |-> "Bob", skills |-> <<"the", "Go", "java">>],
    [id |-> NoId, name |-> "", skills |-> <<>>] }

GivenRoom == Len(vdb_index) + 1 <= MaxGivenEntries

\* index_resume(resume)
IndexGivenResume ==
  \E resume \in GivenResumes :
    /\ GivenRoom
    /\ Install(index_resume(Engine, resume, TRUE))
    /\ last' = Call("index_resume", "ok", 0, NoJob, <<3, 7>>, <<>>, <<>>,
                    index_resume(Engine, resume, TRUE))
    /\ UNCHANGED <<job_descriptions, requests>>

\* index_job_description(job_desc); ret is the id it returns
IndexGivenJobDescription ==
  \E job_desc \in JobRecords :
    LET content == create_job_description_content(job_desc)
        job_id == JobId(job_descriptions)
        e == add_document(Engine, MakeDocument(job_id, content, "job_description", job_desc),
                          TRUE)
    IN  /\ GivenRoom
        /\ job_descriptions' = Append(job_descriptions, [id |-> job_id, job |-> job_desc])
        /\ Install(e)
        /\ last' = Call("index_job_description", "ok", 0, job_desc, <<3, 7>>, <<>>,
                        <<job_id>>, e)
        /\ UNCHANGED requests

NextGiven ==
  \/ IndexGivenResume
  \/ IndexGivenJobDescription

SpecGiven == Init /\ [][NextGiven]_vars

(***************************************************************************)
(* Properties                                                              *)
(***************************************************************************)
Retrieved == last.op = "retrieve_candidates"
Searched == last.op \in {"retrieve_candidates", "hybrid_search"}
Indexed == last.op \in {"index_resume", "index_resumes", "index_job_description"}

Query == create_job_description_content(last.job)

ResumeDocs == { i \in DOMAIN documents : documents[i].type = "resume" }

NothingIndexed ==
  /\ documents = <<>>
  /\ keyword_index = <<>>
  /\ vdb_index = <<>> /\ vdb_documents = <<>> /\ vdb_doc_ids = <<>>
  /\ job_descriptions = <<>>

\* C1: on a retriever into which nothing has been indexed, retrieve_candidates
\* returns the empty list and does not raise.
C1_EmptyCorpusReturnsEmpty ==
  (Retrieved /\ NothingIndexed) => (last.status = "ok" /\ last.ret = <<>>)

\* C2: whenever retrieve_candidates returns, it returns exactly min(top_k, R)
\* records, R the number of resume documents in the document store; job
\* description documents never reduce the number.
C2_ReturnedCountIsMin ==
  (Retrieved /\ last.status = "ok") => Len(last.ret) = Min(last.k, Cardinality(ResumeDocs))

ResultIds == [i \in DOMAIN last.results |-> last.results[i].doc.id]

ResumeResults == SelectSeq(last.results, LAMBDA r : r.doc.type = "resume")

NoRepeat(s) == \A i, j \in DOMAIN s : i # j => s[i] # s[j]

\* C3: retrieve_candidates returns at most top_k records, each the payload of
\* a stored document of type resume, and no resume twice: the records are the
\* payloads of distinct documents, and no resume id occurs in two records.
C3_AtMostTopKDistinctResumes ==
  (Retrieved /\ last.status = "ok") =>
    /\ Len(last.ret) <= last.k
    /\ NoRepeat(ResultIds)
    /\ Len(last.ret) = Len(ResumeResults)
    /\ \A i \in DOMAIN last.ret :
         /\ ResumeResults[i].doc \in Range(documents)
         /\ ResumeResults[i].doc.type = "resume"
         /\ last.ret[i].resume = ResumeResults[i].doc.payload
         /\ last.ret[i].resume \in ResumeRecords
    /\ \A i, j \in DOMAIN last.ret :
         (i # j /\ last.ret[i].resume.id # NoId) => last.ret[i].resume.id # last.ret[j].resume.id

\* C3 witness: a retrieval over a corpus holding a job description returned a
\* resume while the fused list also held the job description
C3_Witness ==
  /\ Retrieved /\ last.status = "ok"
  /\ Len(last.ret) >= 1
  /\ \E i \in DOMAIN last.results : last.results[i].doc.type = "job_description"

AllResumes == \A i \in DOMAIN documents : documents[i].type = "resume"

\* C4: when top_k exceeds the number of indexed documents and the corpus
\* holds resumes only (at least one), retrieve_candidates raises no error and
\* returns every indexed resume exactly once.
C4_TopKBeyondCorpusReturnsAll ==
  (Retrieved /\ last.k > Len(documents) /\ documents # <<>> /\ AllResumes) =>
    /\ last.status = "ok"
    /\ Len(last.ret) = Len(documents)
    /\ \A i \in DOMAIN documents :
         \E j \in DOMAIN last.ret : last.ret[j].resume = documents[i].payload

UniqueIds(docs) == \A i, j \in DOMAIN docs : i # j => docs[i].id # docs[j].id

\* the last document of the sequence with the given id
LastAdded(added, id) ==
  added[CHOOSE i \in DOMAIN added :
          added[i].id = id /\ \A j \in DOMAIN added : added[j].id = id => j <= i]

C5_Step ==
  Indexed' =>
    LET added == last'.added
        ids == { added[i].id : i \in DOMAIN added }
    IN  /\ \A id \in ids : HasId(documents', id) /\ DocById(documents', id) = LastAdded(added, id)
        /\ \A i \in DOMAIN documents :
             documents[i].id \notin ids => documents'[i] = documents[i]
        /\ Len(documents') = Len(documents) + Cardinality({ id \in ids : ~HasId(documents, id) })

\* C5: the document store holds exactly one document per id, the one of the
\* last add_document call for that id; adding a document whose id is present
\* leaves the document count unchanged.
C5_OneDocumentPerId ==
  [](UniqueIds(documents)) /\ [][C5_Step]_vars

\* C5 witness: an id was indexed twice and the store holds it once
C5_Witness ==
  /\ last.op = "index_resume" /\ last.status = "ok"
  /\ Len(documents) = 1
  /\ Len(vdb_doc_ids) = 2
  /\ vdb_doc_ids[1] = documents[1].id /\ vdb_doc_ids[2] = documents[1].id
  /\ vdb_documents[1] # vdb_documents[2]
  /\ documents[1] = vdb_documents[2]

\* C6: the vector index holds at most one entry per document id, so its
\* document count equals the number of distinct ids indexed.
C6_OneVectorPerId ==
  /\ NoRepeat(vdb_doc_ids)
  /\ Len(vdb_documents) = Cardinality(Range(vdb_doc_ids))

\* C7: keyword_index[t] contains document d only for terms t that occur in the
\* content the document store holds for d.
C7_NoStalePostings ==
  \A t \in DOMAIN keyword_index :
    \A i \in DOMAIN keyword_index[t] :
      LET d == keyword_index[t][i].doc
      IN  /\ HasId(documents, d)
          /\ t \in Range(extract_keywords(DocById(documents, d).content))

Corpus ==
  <<documents, keyword_index, vdb_index, vdb_documents, vdb_doc_ids>>

\* C8: an indexing call in which model.encode fails leaves the document store,
\* the keyword index and the vector index as they were before the call.
C8_FailedIndexingLeavesCorpus ==
  [][(Indexed' /\ last'.status = "raised") => Corpus' = Corpus]_vars

InUnitInterval(score) == 0 <= score.n /\ score.n <= score.d

\* C9: with weights in [0,1] that sum to 1, every combined score returned by
\* hybrid_search and every hybrid_score of retrieve_candidates lies in [0,1].
C9_ScoresInUnitInterval ==
  (Searched /\ last.status = "ok" /\ last.wk + last.wv = 10) =>
    /\ \A i \in DOMAIN last.results : InUnitInterval(last.results[i].score)
    /\ \A i \in DOMAIN last.ret : InUnitInterval(last.ret[i].hybrid_score)

\* the sum, over the occurrences of the query's terms, of the term's count in
\* the document
RECURSIVE TermFrequency(_, _)
TermFrequency(query_keywords, id) ==
  IF query_keywords = <<>> THEN 0
  ELSE LET t == Head(query_keywords)
           hit == IF t \in DOMAIN keyword_index
                    THEN { i \in DOMAIN keyword_index[t] : keyword_index[t][i].doc = id }
                    ELSE {}
       IN  (IF hit = {} THEN 0 ELSE keyword_index[t][CHOOSE i \in hit : TRUE].count)
           + TermFrequency(Tail(query_keywords), id)

KeywordRank(id) ==
  LET kr == keyword_search(keyword_index, Query, last.k * 2)
  IN  IF \E i \in DOMAIN kr : kr[i].id = id
        THEN CHOOSE i \in DOMAIN kr : kr[i].id = id
        ELSE 0

KeywordOnly == last.op = "hybrid_search" /\ last.status = "ok" /\ last.wk = 10 /\ last.wv = 0

\* C10: with keyword_weight 1 and vector_weight 0, the documents of the
\* hybrid result that have a keyword score keep the relative order of
\* keyword_search(query, 2k) except among equal keyword scores, and every
\* document with a keyword match ranks above every document without one.
C10_KeywordOnlyKeepsKeywordOrder ==
  KeywordOnly =>
    \A i, j \in DOMAIN ResultIds :
      LET a == ResultIds[i]
          b == ResultIds[j]
          kw == extract_keywords(Query)
      IN  /\ (KeywordRank(a) > 0 /\ KeywordRank(b) > 0 /\ KeywordRank(a) < KeywordRank(b)
               /\ TermFrequency(kw, a) # TermFrequency(kw, b)) => i < j
          /\ (TermFrequency(kw, a) > 0 /\ TermFrequency(kw, b) = 0) => i < j

\* C10 witness: a keyword-only search returned a document with a keyword
\* match and a document without one
C10_Witness ==
  /\ KeywordOnly
  /\ \E i, j \in DOMAIN ResultIds :
       LET kw == extract_keywords(Query)
       IN  /\ TermFrequency(kw, ResultIds[i]) > 0
           /\ TermFrequency(kw, ResultIds[j]) = 0

Occurrences(s, x) == Cardinality({ i \in DOMAIN s : s[i] = x })

\* C11: index_resumes with at least one record makes exactly one call to
\* model.encode for the whole batch, and makes it before any insertion into
\* the document store, the keyword index or the vector index.
C11_OneEncodeBeforeInsertions ==
  (last.op = "index_resumes" /\ last.added # <<>>) =>
    /\ Occurrences(last.events, "encode") = 1
    /\ last.events[1] = "encode"

C14_Step ==
  Retrieved' =>
    /\ Corpus' = Corpus
    /\ job_descriptions' = job_descriptions
    /\ \A i \in DOMAIN documents' :
         documents'[i].payload \in ResumeRecords \cup JobRecords

\* C14: retrieve_candidates leaves the document store, the keyword index, the
\* vector index and job_descriptions unchanged: the query job description is
\* not indexed, and the stored payload records carry no hybrid_score field
\* (they stay the records that were indexed).
C14_RetrieveCandidatesIsReadOnly == [][C14_Step]_vars

\* C14 witness: a retrieval on a corpus with a job description on file
\* returned a scored resume
C14_Witness ==
  /\ Retrieved
  /\ last.status = "ok"
  /\ last.ret # <<>>
  /\ job_descriptions # <<>>

Abs(x) == IF x < 0 THEN -x ELSE x

RECURSIVE GCD(_, _)
GCD(a, b) == IF b = 0 THEN a ELSE GCD(b, a % b)

\* the fraction n/d (d > 0) in lowest terms
Reduced(f) ==
  LET g == GCD(Abs(f.n), f.d)
  IN  [n |-> f.n \div g, d |-> f.d \div g]

QueryVector == normalize_L2(encode(Query))

\* the similarity of the query to the vector last stored for the document
\* (0 when the document has no vector)
VectorScoreOf(id) ==
  LET at == { i \in DOMAIN vdb_doc_ids : vdb_doc_ids[i] = id }
  IN  IF at = {} THEN 0
      ELSE InnerProduct(vdb_index[SetMax(at)], QueryVector)

\* the maximum of a set of scores as the fusion normalises by it
NormalisingMax(S) ==
  LET m == IF S = {} THEN 1 ELSE SetMax(S)
  IN  IF m = 0 THEN 1 ELSE m

\* wk/10 * ks/maxK + wv/10 * vs/maxV for the document's own scores
FusedScoreOf(id, wk, wv) ==
  LET kw == extract_keywords(Query)
      maxK == NormalisingMax({ TermFrequency(kw, x) :
                                 x \in { documents[i].id : i \in DOMAIN documents } })
      maxV == NormalisingMax({ VectorScoreOf(x) : x \in Range(vdb_doc_ids) })
  IN  [n |-> Sign(maxK * maxV) * (wk * TermFrequency(kw, id) * maxV + wv * VectorScoreOf(id) * maxK),
       d |-> Sign(maxK * maxV) * 10 * maxK * maxV]

\* C15: the list retrieve_candidates returns is in non-increasing order of
\* hybrid_score, and each hybrid_score is 0.3*normK + 0.7*normV, normK and
\* normV being the keyword score and the vector score of that resume's
\* document divided by the maximum of the respective result set (checked
\* where both result sets hold the whole corpus: 2*top_k entries suffice).
C15_SortedAndFused ==
  (Retrieved /\ last.status = "ok"
     /\ Len(documents) <= 2 * last.k /\ Len(vdb_index) <= 2 * last.k) =>
    /\ \A i, j \in DOMAIN last.ret :
         i < j => last.ret[i].hybrid_score.n >= last.ret[j].hybrid_score.n
    /\ \A i \in DOMAIN last.ret :
         Reduced(last.ret[i].hybrid_score) = Reduced(FusedScoreOf(ResumeResults[i].doc.id, 3, 7))

\* C16: for a query without any keyword, keyword_search returns the empty
\* list, and a hybrid_search that returns has ranked the documents by their
\* vector score alone: a returned document is at least as similar to the
\* query as every document returned after it.
C16_KeywordlessQueryRanksByVector ==
  (Searched /\ extract_keywords(Query) = <<>>) =>
    /\ keyword_search(keyword_index, Query, 2 * last.k) = <<>>
    /\ (last.status = "ok" /\ last.wv > 0) =>
         \A i, j \in DOMAIN ResultIds :
           i < j => VectorScoreOf(ResultIds[i]) >= VectorScoreOf(ResultIds[j])

KeywordSearched == last.op = "keyword_search"

\* the documents with a posting under at least one term of the query
Matching ==
  { id \in { documents[i].id : i \in DOMAIN documents } :
      \E t \in Range(extract_keywords(last.query)) \cap DOMAIN keyword_index :
        \E i \in DOMAIN keyword_index[t] : keyword_index[t][i].doc = id }

\* C19: keyword_search(query, k) returns at most k pairs; the pairs are
\* exactly the documents with a posting under a query term, cut to the k
\* best; a document's score is the sum, over the terms of the tokenised
\* query, of the term's count in the document; scores do not increase along
\* the list.
C19_KeywordSearchResult ==
  KeywordSearched =>
    LET kw == extract_keywords(last.query)
        ids == [i \in DOMAIN last.ret |-> last.ret[i].id]
    IN  /\ Len(last.ret) = Min(last.k, Cardinality(Matching))
        /\ NoRepeat(ids)
        /\ \A i \in DOMAIN last.ret :
             /\ ids[i] \in Matching
             /\ last.ret[i].key = TermFrequency(kw, ids[i])
        /\ \A i, j \in DOMAIN last.ret : i < j => last.ret[i].key >= last.ret[j].key
        /\ \A id \in Matching \ Range(ids) :
             \A i \in DOMAIN last.ret : last.ret[i].key >= TermFrequency(kw, id)

\* C19 witness: a query of two terms returned two documents with different
\* scores, one of them matched by a term that occurs twice in it
C19_Witness ==
  /\ KeywordSearched
  /\ Len(extract_keywords(last.query)) = 2
  /\ Len(last.ret) = 2
  /\ last.ret[1].key >= 3
  /\ last.ret[1].key > last.ret[2].key

StorePosition(id) == CHOOSE i \in DOMAIN documents : documents[i].id = id

\* C20: keyword_search lists documents of equal score in the order in which
\* they were inserted into the document store, whatever the order of the
\* terms in the query.
C20_TiesInInsertionOrder ==
  KeywordSearched =>
    \A i, j \in DOMAIN last.ret :
      (i < j /\ last.ret[i].key = last.ret[j].key) =>
        StorePosition(last.ret[i].id) < StorePosition(last.ret[j].id)

Screened == last.op = "screen_resume"

Ranked == last.op = "rank_resumes"

\* C12: when rank_resumes with retrieval is called for a second, different
\* job on the same agent, its retrieval ranks only documents the call itself
\* indexed: no document of the earlier job is in the hybrid result or among
\* the candidates.
C12_JobsAreIsolated ==
  (Ranked /\ last.use_retrieval /\ Len(job_descriptions) >= 2
     /\ \A i \in 1..(Len(job_descriptions) - 1) : job_descriptions[i].job # last.job) =>
    /\ \A i \in DOMAIN last.results : last.results[i].doc \in Range(last.added)
    /\ \A i \in DOMAIN last.candidates : last.candidates[i].resume \in Range(last.resumes)

\* C17: rank_resumes returns one ResumeScore per resume handed to the worker
\* pool, also for a task that raised, and the list is in non-increasing
\* order of overall_score, whatever the completion order and max_workers.
C17_OneScorePerSubmittedResume ==
  Ranked =>
    /\ Len(last.ret) = Len(last.to_process)
    /\ \E f \in SeqsOf(DOMAIN last.to_process) :
         \A i \in DOMAIN last.ret :
           /\ last.ret[i].resume_id = last.to_process[f[i]].id
           /\ last.ret[i].candidate_name = last.to_process[f[i]].name
           /\ last.runs[f[i]].kind = "raised" => last.ret[i].overall_score = 0
    /\ \A i, j \in DOMAIN last.ret :
         i < j => last.ret[i].overall_score >= last.ret[j].overall_score

\* C17 witness: two resumes were submitted, the one submitted first completed
\* last and got the higher score, and the other one's task raised
C17_Witness ==
  /\ Ranked
  /\ Len(last.to_process) = 2
  /\ last.order = <<2, 1>>
  /\ last.runs[2].kind = "raised"
  /\ last.ret[1].overall_score > last.ret[2].overall_score
  /\ last.max_workers = 1

\* an indexing call of the request is under way
IndexingInFlight(r) == requests[r].pc \in {"index_resumes", "index_job_description"}

C13_Step ==
  \A r \in Requests :
    (requests[r].pc = "retrieve_candidates" /\ requests'[r].pc # "retrieve_candidates") =>
      \A other \in Requests \ {r} : ~IndexingInFlight(other)

\* C13: with two /screen requests served at the same time, no request runs
\* retrieve_candidates on the retriever while an indexing call of another
\* request (index_resumes or index_job_description) is under way on it.
C13_NoRetrievalDuringIndexing == [][C13_Step]_vars

VectorSearched == last.op = "search"

\* C21: VectorDatabase.search(query, k) returns exactly min(k, n) results for
\* n stored vectors; each result is a stored entry with the inner product of
\* its own vector and the query as score, no entry comes twice, and the
\* scores do not increase along the list.
C21_SearchReturnsNearestEntries ==
  VectorSearched =>
    /\ last.status = "ok"
    /\ Len(last.ret) = Min(last.k, Len(vdb_index))
    /\ \A i \in DOMAIN last.ret :
         /\ last.hits[i].idx \in 0..(Len(vdb_documents) - 1)
         /\ last.ret[i].doc = vdb_documents[last.hits[i].idx + 1]
         /\ last.ret[i].score = InnerProduct(vdb_index[last.hits[i].idx + 1],
                                             normalize_L2(encode(last.query)))
    /\ \A i, j \in DOMAIN last.ret :
         /\ i # j => last.hits[i].idx # last.hits[j].idx
         /\ i < j => last.ret[i].score >= last.ret[j].score

\* C29: after add_documents and clear calls that completed, the FAISS index,
\* documents and doc_ids have the same length, the i-th vector is the
\* normalised embedding of the content of documents[i], and doc_ids[i] is the
\* id of documents[i]; after clear all three are empty.
C29_VectorDatabaseAligned ==
  /\ Len(vdb_index) = Len(vdb_documents)
  /\ Len(vdb_documents) = Len(vdb_doc_ids)
  /\ \A i \in DOMAIN vdb_documents :
       /\ vdb_index[i] = normalize_L2(encode(vdb_documents[i].content))
       /\ vdb_doc_ids[i] = vdb_documents[i].id
  /\ last.op = "clear" => (vdb_index = <<>> /\ vdb_documents = <<>> /\ vdb_doc_ids = <<>>)

\* C29 witness: a batch of two documents with different embeddings was added
\* and makes up the whole database
C29_Witness ==
  /\ last.op = "add_documents"
  /\ Len(last.ret) = 2
  /\ vdb_documents = last.ret
  /\ vdb_index[1] # vdb_index[2]

\* C22: hybrid_search lists documents of equal combined score in the order
\* of their insertion into the document store, so that the corpus, the
\* query, k and the weights determine the returned list.
C22_HybridTiesInInsertionOrder ==
  (Searched /\ last.status = "ok") =>
    /\ \A i, j \in DOMAIN last.results :
         (i < j /\ last.results[i].score = last.results[j].score) =>
           StorePosition(ResultIds[i]) < StorePosition(ResultIds[j])
    /\ \A out \in HybridOutcomes(Query, QueryVector, last.k, last.wk, last.wv) :
         out.results = last.results

Fused == last.op = "fusion"

\* the values of dict(result set)
ScoreValues(pairs) ==
  { LastScore(pairs, pairs[i].id, 0) : i \in DOMAIN pairs }

\* C23: the fusion of hybrid_search is defined for every keyword result set
\* and every vector result set: the normalising maximum is 1 when the result
\* set is empty or its maximum is 0 and the maximum otherwise, so it is never
\* 0, and every document of either set gets a combined score.
C23_FusionIsTotal ==
  Fused =>
    LET kr == last.input.keyword_results
        vr == [i \in DOMAIN last.input.vector_results |->
                 [id |-> last.input.vector_results[i].doc.id,
                  key |-> last.input.vector_results[i].score]]
        expected(pairs) ==
          IF ScoreValues(pairs) = {} \/ SetMax(ScoreValues(pairs)) = 0
            THEN 1 ELSE SetMax(ScoreValues(pairs))
    IN  /\ last.maxK = expected(kr) /\ last.maxK # 0
        /\ last.maxV = expected(vr) /\ last.maxV # 0
        /\ Len(last.results) = Cardinality(Range(last.input.idOrder))
        /\ \A i \in DOMAIN last.results : last.results[i].score.d > 0

\* C23 witness: no keyword result, and a vector result set whose maximum is 0
C23_Witness ==
  /\ Fused
  /\ last.input.keyword_results = <<>>
  /\ Len(last.input.vector_results) = 2
  /\ last.input.vector_results[1].score = 0
  /\ last.maxV = 1
  /\ Len(last.results) >= 1

\* the error of attempt i (counted from 0) of the last screening
ErrorAt(i) == last.outcomes[i + 1].kind

\* C24: screen_resume retries only after a rate-limit error and only after
\* attempts 0 and 1: an error without the rate-limit marker ends the call at
\* once with the zero-score NOT_RECOMMENDED result, and a rate-limit error of
\* attempt i (0 or 1) is followed by one wait of (2 ** i) * 5 seconds and
\* then by attempt i + 1.
C24_RetriesOnlyOnRateLimit ==
  Screened =>
    /\ Len(last.waits) = last.calls - 1
    /\ \A i \in 0..(last.calls - 1) :
         /\ ErrorAt(i) \in {"other_error", "bad_json"} =>
              /\ last.calls = i + 1
              /\ last.ret = ErrorScore(last.resume, "Error during screening")
              /\ last.ret.overall_score = 0
              /\ last.ret.recommendation = "NOT_RECOMMENDED"
         /\ (ErrorAt(i) = "rate_limit" /\ i < 2) =>
              /\ last.calls >= i + 2
              /\ last.waits[i + 1] = IF i = 0 THEN 5 ELSE 10
         /\ i + 1 < last.calls => (ErrorAt(i) = "rate_limit" /\ i < 2)

\* C24 witness: a rate-limit error of attempt 0 was waited out and attempt 1
\* failed with another error, which ended the call after two API calls
C24_Witness ==
  /\ Screened
  /\ ErrorAt(0) = "rate_limit"
  /\ ErrorAt(1) = "other_error"
  /\ last.calls = 2
  /\ last.waits = <<5>>
  /\ last.exit = "error"

\* C30: screen_resume never takes the return after the retry loop: it returns
\* from inside the loop with the parsed score or with the error score.
C30_MaxRetriesReturnUnreachable ==
  Screened =>
    /\ last.exit \in {"parsed", "error"}
    /\ last.exit = "parsed" =>
         last.ret = ParsedScore(last.resume, last.outcomes[last.calls].result)
    /\ last.exit = "error" =>
         last.ret = ErrorScore(last.resume, "Error during screening")
    /\ last.ret.reasoning # "Max retries exceeded"

\* C30 witness: all three attempts ended in a rate-limit error and the call
\* returned the error score from inside the loop
C30_Witness ==
  /\ Screened
  /\ \A i \in 0..2 : ErrorAt(i) = "rate_limit"
  /\ last.calls = 3
  /\ last.waits = <<5, 10>>
  /\ last.exit = "error"
  /\ last.ret.reasoning = "Error during screening"

\* two scores [n, d] are the same number
SameScore(a, b) == a.n * b.d = b.n * a.d

\* every task of the pool returned a parsed score
AllReturned == \A t \in DOMAIN last.runs : last.runs[t].kind = "returned"

\* C25: after rank_resumes with retrieval, the ResumeScore of every candidate
\* the retrieval selected from the input list has that candidate's hybrid
\* score in similarity_score.
C25_SimilarityIsHybridScore ==
  (Ranked /\ last.use_retrieval /\ AllReturned) =>
    \A j \in DOMAIN last.candidates :
      LET candidate == last.candidates[j]
      IN  (\E i \in DOMAIN last.resumes : last.resumes[i].id = candidate.resume.id) =>
            \E i \in DOMAIN last.ret :
              /\ last.ret[i].resume_id = candidate.resume.id
              /\ SameScore(last.ret[i].similarity_score, candidate.hybrid_score)

\* C26: in rank_resumes with retrieval, every resume handed to the screening
\* stage is one of the call's input resumes and no input resume is handed
\* over twice, whatever earlier calls left in the agent's retriever.
C26_ScreenedOnceFromInput ==
  (Ranked /\ last.use_retrieval) =>
    /\ \A i \in DOMAIN last.to_process : last.to_process[i] \in Range(last.resumes)
    /\ \A i, j \in DOMAIN last.to_process :
         i # j => last.to_process[i] # last.to_process[j]

\* request r was the first one a new agent served, and it has returned
FirstRequestDone(r) ==
  /\ requests[r].pc = "done"
  /\ \A other \in Requests \ {r} : requests[other].pc = "idle"
  /\ Len(job_descriptions) = 1

\* C27: on a new agent, a /screen request with n >= 1 resumes of distinct ids
\* and 1 <= top_n <= n returns exactly top_n results.
C27_ScreenReturnsTopN ==
  \A r \in Requests :
    (/\ FirstRequestDone(r)
     /\ Len(requests[r].resumes) >= 1
     /\ \A i, j \in DOMAIN requests[r].resumes :
          i # j => requests[r].resumes[i].id # requests[r].resumes[j].id
     /\ requests[r].top_n \in 1..Len(requests[r].resumes)) =>
      Len(requests[r].ret) = requests[r].top_n

\* the step is a call that made up the id of its document
GeneratesId ==
  \/ last'.op = "index_job_description"
  \/ last'.op = "index_resume" /\ last'.added[1].payload.id = NoId

C28_Step ==
  GeneratesId =>
    /\ ~HasId(documents, last'.added[1].id)
    /\ \A j \in DOMAIN job_descriptions : job_descriptions[j].id # last'.added[1].id
    /\ Len(documents') = Len(documents) + 1
    /\ \A i \in DOMAIN documents : documents'[i] = documents[i]

\* C28: an id made up by index_job_description or by index_resume (for a
\* record without an id) is not the id of a stored document nor an earlier job
\* id, so the call adds one document to the store and replaces none.
C28_GeneratedIdsAreFresh == [][C28_Step]_vars

====
